---- MODULE Spec2Model ----
(***************************************************************************)
(* Model of sispo/compression/compression.py: the Compressor facade, its   *)
(* algorithm selection (select_algo), the four decorators that wrap the    *)
(* codecs, and the file/image bookkeeping of load_images, compress,        *)
(* compress_series and decompress.                                         *)
(***************************************************************************)
EXTENDS Integers, Sequences, FiniteSets, TLC

VARIABLES
    constructed,   \* TRUE once Compressor.__init__ has returned
    comp_met,      \* self._comp_met
    decomp_met,    \* self._decomp_met
    settings_ref,  \* self._settings: the id of a mapping object, 0 when unset
    heap,          \* the mapping objects: object id -> dict content
    img_ids,       \* self.img_ids: [set, ids]
    imgs,          \* self.imgs
    files,         \* artifact files under image_dir, by name
    last,          \* the most recent call: operation, inputs and outcome
    chosen         \* history: the mapping object the caller passed to the
                   \* last successful selection, and what it resolved to

vars == <<constructed, comp_met, decomp_met, settings_ref, heap, img_ids,
          imgs, files, last, chosen>>

(***************************************************************************)
(* Bounds of the model.                                                    *)
(***************************************************************************)
NumObjs == 2        \* mapping objects alive at once
MaxImgs == 2        \* length of self.imgs
MaxIds == 2         \* length of an identifier list given to load_images

(***************************************************************************)
(* Python values.  One record shape for every value so that any two values *)
(* can be compared: t is the type, n the number (ints, bools as 0/1,       *)
(* floats in tenths), s the text, items the elements of a tuple.  A str    *)
(* value stands for s repeated n times.                                    *)
(***************************************************************************)
PyVal(t, n, s) == [t |-> t, n |-> n, s |-> s, items |-> <<>>]
Absent == PyVal("absent", 0, "")
PyInt(n) == PyVal("int", n, "")
PyBool(b) == PyVal("bool", IF b THEN 1 ELSE 0, "")
PyFloat(tenths) == PyVal("float", tenths, "")
PyStr(s) == PyVal("str", 1, s)
PyTuple(items) == [t |-> "tuple", n |-> 0, s |-> "", items |-> items]

\* isinstance(v, bool) / isinstance(v, int): bool is a subclass of int
IsInstance(v, type) ==
    CASE type = "bool" -> v.t = "bool"
      [] type = "int"  -> v.t \in {"int", "bool"}
      [] OTHER         -> FALSE

\* truth value of a Python object used as a condition
Truthy(v) ==
    CASE v.t = "str"    -> v.s # "" /\ v.n > 0
      [] v.t = "tuple"  -> v.items # <<>>
      [] v.t = "absent" -> FALSE
      [] OTHER          -> v.n # 0

\* v * 10: integer product for int and bool, float product for float,
\* tenfold repetition for str and tuple
Times10(v) ==
    CASE v.t \in {"int", "bool"} -> PyInt(v.n * 10)
      [] v.t = "float"           -> PyFloat(v.n * 10)
      [] v.t = "str"             -> PyVal("str", v.n * 10, v.s)
      [] OTHER                   -> v

(***************************************************************************)
(* dict objects over the keys the module reads or writes.                  *)
(***************************************************************************)
JpegKeys == {"progressive", "optimize", "rst_interval", "luma_quality",
             "chroma_quality"}
Keys == {"level", "compresslevel", "preset", "ext", "params"} \cup JpegKeys

EmptyDict == [k \in Keys |-> Absent]
Has(d, k) == d[k] # Absent
KeysOf(d) == {k \in Keys : Has(d, k)}
DictSet(d, k, v) == [d EXCEPT ![k] = v]
DictPop(d, k) == [d EXCEPT ![k] = Absent]

(***************************************************************************)
(* cv2 constants used by select_algo and the cv decorators.                *)
(***************************************************************************)
IMWRITE_JPEG_QUALITY == 1
IMWRITE_JPEG_PROGRESSIVE == 2
IMWRITE_JPEG_OPTIMIZE == 3
IMWRITE_JPEG_RST_INTERVAL == 4
IMWRITE_JPEG_LUMA_QUALITY == 5
IMWRITE_JPEG_CHROMA_QUALITY == 6
IMWRITE_PNG_COMPRESSION == 16

(***************************************************************************)
(* Exceptions, as class and message.                                       *)
(***************************************************************************)
NoError == ""
KeyErrorLevel == "KeyError: 'level'"
ErrProgressive == "CompressionError: JPEG progressive requires bool"
ErrOptimize == "CompressionError: JPEG optimize requires bool input"
ErrRstInterval == "CompressionError: JPEG rst_interval requires int"
ErrLumaQuality == "CompressionError: JPEG luma_quality requires int"
ErrChromaQuality == "CompressionError: JPEG chroma_quality requires int"
ErrUnknownAlgo == "CompressionError: Unknown compression algorithm."

(***************************************************************************)
(* The decorated codec functions: which decorator wrapped which function.  *)
(***************************************************************************)
Fn(deco, func) == [deco |-> deco, func |-> func]
UnsetFn == Fn("unset", "")
_decorate_builtin_compress(func) == Fn("builtin_compress", func)
_decorate_builtin_decompress(func) == Fn("builtin_decompress", func)
_decorate_cv_compress(func) == Fn("cv_compress", func)
_decorate_cv_decompress(func) == Fn("cv_decompress", func)

(***************************************************************************)
(* select_algo, branch by branch.  Each branch returns the exception       *)
(* raised (NoError when it runs to its end), the content of the mapping    *)
(* when it stops, and the pair it built.                                   *)
(***************************************************************************)
SelResult(err, d, comp, decomp) ==
    [err |-> err, d |-> d, comp |-> comp, decomp |-> decomp]

\* str.lower on the algorithm names the callers of the model use
Lower(algo) ==
    CASE algo = "LZMA" -> "lzma"
      [] algo = "Jpeg" -> "jpeg"
      [] algo = "PNG"  -> "png"
      [] OTHER         -> algo

\* a rename that forgets settings.pop("level")
RenameLevelMutant(d, newkey, comp, decomp) ==
    IF ~Has(d, "level")
    THEN SelResult(KeyErrorLevel, d, comp, decomp)
    ELSE SelResult(NoError, DictSet(d, newkey, d["level"]), comp, decomp)

\* settings[newkey] = settings["level"]; settings.pop("level")
RenameLevel(d, newkey, comp, decomp) ==
    IF ~Has(d, "level")
    THEN SelResult(KeyErrorLevel, d, comp, decomp)
    ELSE SelResult(NoError, DictPop(DictSet(d, newkey, d["level"]), "level"),
                   comp, decomp)

SelectBz2(d) ==
    RenameLevel(d, "compresslevel",
                _decorate_builtin_compress("bz2.compress"),
                _decorate_builtin_decompress("bz2.decompress"))

SelectGzip(d) ==
    RenameLevel(d, "compresslevel",
                _decorate_builtin_compress("gzip.compress"),
                _decorate_builtin_decompress("gzip.decompress"))

SelectLzma(d) ==
    RenameLevel(d, "preset",
                _decorate_builtin_compress("lzma.compress"),
                _decorate_builtin_decompress("lzma.decompress"))

\* a zlib branch that drops level, as the branches before it do
SelectZlibMutant(d) ==
    SelResult(NoError, DictPop(d, "level"),
              _decorate_builtin_compress("zlib.compress"),
              _decorate_builtin_decompress("zlib.decompress"))

SelectZlib(d) ==
    SelResult(NoError, d,
              _decorate_builtin_compress("zlib.compress"),
              _decorate_builtin_decompress("zlib.decompress"))

\* the five optional jpeg settings, in the order the code tests them
JpegOptions ==
    << [key |-> "progressive", type |-> "bool",
        flag |-> IMWRITE_JPEG_PROGRESSIVE, msg |-> ErrProgressive],
       [key |-> "optimize", type |-> "bool",
        flag |-> IMWRITE_JPEG_OPTIMIZE, msg |-> ErrOptimize],
       [key |-> "rst_interval", type |-> "int",
        flag |-> IMWRITE_JPEG_RST_INTERVAL, msg |-> ErrRstInterval],
       [key |-> "luma_quality", type |-> "int",
        flag |-> IMWRITE_JPEG_LUMA_QUALITY, msg |-> ErrLumaQuality],
       [key |-> "chroma_quality", type |-> "int",
        flag |-> IMWRITE_JPEG_CHROMA_QUALITY, msg |-> ErrChromaQuality] >>

\* a chain that substitutes 0 for an option the mapping does not have
RECURSIVE JpegParamsMutant(_, _, _)
JpegParamsMutant(d, i, params) ==
    IF i > Len(JpegOptions)
    THEN [err |-> NoError, params |-> params]
    ELSE LET o == JpegOptions[i] IN
         IF ~Has(d, o.key)
         THEN JpegParamsMutant(d, i + 1, params \o <<PyInt(o.flag), PyInt(0)>>)
         ELSE IF IsInstance(d[o.key], o.type)
              THEN JpegParamsMutant(d, i + 1,
                                    params \o <<PyInt(o.flag), d[o.key]>>)
              ELSE [err |-> o.msg, params |-> params]

\* the chain of "if key in settings" blocks, from option i on
RECURSIVE JpegParams(_, _, _)
JpegParams(d, i, params) ==
    IF i > Len(JpegOptions)
    THEN [err |-> NoError, params |-> params]
    ELSE LET o == JpegOptions[i] IN
         IF ~Has(d, o.key)
         THEN JpegParams(d, i + 1, params)
         ELSE IF IsInstance(d[o.key], o.type)
              THEN JpegParams(d, i + 1, params \o <<PyInt(o.flag), d[o.key]>>)
              ELSE [err |-> o.msg, params |-> params]

SelectJpeg(d) ==
    LET comp == _decorate_cv_compress("cv2.imencode")
        decomp == _decorate_cv_decompress("cv2.imdecode")
        d1 == DictSet(d, "ext", PyStr(".jpg"))
    IN  IF ~Has(d1, "level")
        THEN SelResult(KeyErrorLevel, d1, comp, UnsetFn)
        ELSE LET r == JpegParams(d1, 1,
                         <<PyInt(IMWRITE_JPEG_QUALITY), Times10(d1["level"])>>)
             IN  IF r.err # NoError
                 THEN SelResult(r.err, d1, comp, UnsetFn)
                 ELSE SelResult(NoError,
                                DictSet(d1, "params", PyTuple(r.params)),
                                comp, decomp)

SelectPng(d) ==
    LET comp == _decorate_cv_compress("cv2.imencode")
        decomp == _decorate_cv_decompress("cv2.imdecode")
        d1 == DictSet(d, "ext", PyStr(".png"))
    IN  IF ~Has(d1, "level")
        THEN SelResult(KeyErrorLevel, d1, comp, UnsetFn)
        ELSE LET params == <<PyInt(IMWRITE_PNG_COMPRESSION), d1["level"]>>
             IN  SelResult(NoError,
                           DictSet(DictPop(d1, "level"), "params",
                                   PyTuple(params)),
                           comp, decomp)

\* the condition of the last elif: the string literal "png" itself
PngBranchTaken(algo) == Truthy(PyStr("png"))

\* the if/elif ladder of select_algo up to, not including, lines 192-194
SelectBranch(algo, d) ==
    LET a == Lower(algo) IN
    IF a = "bz2" THEN SelectBz2(d)
    ELSE IF a = "gzip" THEN SelectGzip(d)
    ELSE IF a = "lzma" THEN SelectLzma(d)
    ELSE IF a = "zlib" THEN SelectZlib(d)
    ELSE IF a = "jpeg" \/ a = "jpg" THEN SelectJpeg(d)
    ELSE IF PngBranchTaken(a) THEN SelectPng(d)
    ELSE SelResult(ErrUnknownAlgo, d, UnsetFn, UnsetFn)

(***************************************************************************)
(* numpy arrays and byte strings.  An array is its dtype, its shape and    *)
(* its samples; the samples of an image are given region by region (one    *)
(* value per region of equal samples), in thousandths.  A byte string is   *)
(* its container format, the parameters it was encoded with, and the raw   *)
(* buffer inside: length in bytes, sample encoding, samples; an image      *)
(* container also stores the shape.                                        *)
(***************************************************************************)
FixedShape == <<2048, 2464, 3>>

Arr(dtype, shape, samples) ==
    [dtype |-> dtype, shape |-> shape, samples |-> samples]
NoneArr == Arr("none", <<>>, <<>>)

ItemSize(dtype) ==
    CASE dtype = "float32" -> 4
      [] dtype = "float64" -> 8
      [] OTHER             -> 1

RECURSIVE Product(_)
Product(shape) ==
    IF shape = <<>> THEN 1 ELSE Head(shape) * Product(Tail(shape))

Size(a) == Product(a.shape)
NBytes(a) == Size(a) * ItemSize(a.dtype)

Bytes(fmt, par, nbytes, enc, shape, samples) ==
    [fmt |-> fmt, par |-> par, nbytes |-> nbytes, enc |-> enc,
     shape |-> shape, samples |-> samples]
NoBytes == Bytes("none", <<>>, 0, "none", <<>>, <<>>)
EmptyBytes == Bytes("raw", <<>>, 0, "uint8", <<>>, <<>>)

\* the samples read from a buffer under a dtype: those written when the
\* encoding is the same, other numbers when the bytes are reinterpreted
ViewAs(samples, enc, dtype) ==
    IF enc = dtype THEN samples
    ELSE [i \in 1..Len(samples) |-> -1 - samples[i]]

Ret(err, out) == [err |-> err, out |-> out]

(***************************************************************************)
(* The byte-stream codecs of the standard library, by their documented     *)
(* signatures: the keyword parameters each compress function accepts, the  *)
(* range of its level parameter and its default.                           *)
(***************************************************************************)
StreamFormat(func) ==
    CASE func \in {"bz2.compress", "bz2.decompress"}   -> "bz2"
      [] func \in {"gzip.compress", "gzip.decompress"} -> "gzip"
      [] func \in {"lzma.compress", "lzma.decompress"} -> "lzma"
      [] OTHER                                         -> "zlib"

LevelKeyword(func) ==
    CASE func = "bz2.compress"  -> "compresslevel"
      [] func = "gzip.compress" -> "compresslevel"
      [] func = "lzma.compress" -> "preset"
      [] OTHER                  -> "level"

LevelRange(func) ==
    CASE func = "bz2.compress"  -> 1..9
      [] func = "gzip.compress" -> -1..9
      [] func = "lzma.compress" -> 0..9
      [] OTHER                  -> -1..9

DefaultLevel(func) ==
    CASE func = "bz2.compress"  -> 9
      [] func = "gzip.compress" -> 9
      [] func = "lzma.compress" -> 6
      [] OTHER                  -> -1

LevelError(func) ==
    CASE func = "bz2.compress"  -> "ValueError: compresslevel must be between 1 and 9"
      [] func = "lzma.compress" -> "LZMAError: Invalid or unsupported options"
      [] OTHER                  -> "zlib.error: Bad compression level"

ErrUnexpectedKeyword == "TypeError: got an unexpected keyword argument"
ErrNotAnInteger == "TypeError: an integer is required"

\* func(img, **kwargs) for a compress function of bz2, gzip, lzma or zlib
StreamCompress(func, img, kwargs) ==
    LET key == LevelKeyword(func)
        lvl == IF Has(kwargs, key) THEN kwargs[key]
               ELSE PyInt(DefaultLevel(func))
    IN  IF ~(KeysOf(kwargs) \subseteq {key})
        THEN Ret(ErrUnexpectedKeyword, NoBytes)
        ELSE IF ~IsInstance(lvl, "int")
        THEN Ret(ErrNotAnInteger, NoBytes)
        ELSE IF lvl.n \notin LevelRange(func)
        THEN Ret(LevelError(func), NoBytes)
        ELSE Ret(NoError,
                 Bytes(StreamFormat(func), <<lvl.n>>, NBytes(img), img.dtype,
                       <<>>, img.samples))

StreamDataError(func) ==
    CASE func = "bz2.decompress"  -> "OSError: Invalid data stream"
      [] func = "gzip.decompress" -> "BadGzipFile: Not a gzipped file"
      [] func = "lzma.decompress" -> "LZMAError: Input format not supported by decoder"
      [] OTHER                    -> "zlib.error: Error -3 while decompressing data"

\* func(data) for a decompress function: the buffer inside a stream of its
\* own format; bz2 and gzip return b"" for b""; anything else is an error
StreamDecompress(func, data) ==
    IF data.fmt = StreamFormat(func)
    THEN Ret(NoError, Bytes("raw", <<>>, data.nbytes, data.enc, <<>>,
                            data.samples))
    ELSE IF data = EmptyBytes /\ func \in {"bz2.decompress", "gzip.decompress"}
    THEN Ret(NoError, EmptyBytes)
    ELSE Ret(StreamDataError(func), NoBytes)

(***************************************************************************)
(* numpy operations used by the decorators.                                *)
(***************************************************************************)
ErrBufferSize == "ValueError: buffer size must be a multiple of element size"
ErrReshape == "ValueError: cannot reshape array"

\* np.frombuffer(buf, dtype): a one-dimensional view of the buffer
FromBuffer(buf, dtype) ==
    IF buf.nbytes % ItemSize(dtype) # 0
    THEN Ret(ErrBufferSize, NoneArr)
    ELSE Ret(NoError, Arr(dtype, <<buf.nbytes \div ItemSize(dtype)>>,
                          ViewAs(buf.samples, buf.enc, dtype)))

\* a reshape that lets the first dimension follow the size, reshape(-1, ...)
ReshapeMutant(a, shape) ==
    LET inner == Product(Tail(shape)) IN
    IF Size(a) % inner # 0
    THEN Ret(ErrReshape, NoneArr)
    ELSE Ret(NoError,
             Arr(a.dtype, <<Size(a) \div inner>> \o Tail(shape), a.samples))

\* a.reshape(shape): the same samples under another shape of equal size
Reshape(a, shape) ==
    IF Size(a) # Product(shape)
    THEN Ret(ErrReshape, NoneArr)
    ELSE Ret(NoError, Arr(a.dtype, shape, a.samples))

(***************************************************************************)
(* The closures returned by the decorators for the byte-stream codecs.     *)
(***************************************************************************)
\* compress(img, settings) of _decorate_builtin_compress
BuiltinCompress(func, img, settings) == StreamCompress(func, img, settings)

\* a decoder that reads the buffer as float64 samples
BuiltinDecompressMutant(func, img) ==
    LET r1 == StreamDecompress(func, img) IN
    IF r1.err # NoError THEN Ret(r1.err, NoneArr)
    ELSE LET r2 == FromBuffer(r1.out, "float64") IN
         IF r2.err # NoError THEN r2
         ELSE Reshape(r2.out, <<Size(r2.out) \div (2464 * 3), 2464, 3>>)

\* decompress(img) of _decorate_builtin_decompress
BuiltinDecompress(func, img) ==
    LET r1 == StreamDecompress(func, img) IN
    IF r1.err # NoError THEN Ret(r1.err, NoneArr)
    ELSE LET r2 == FromBuffer(r1.out, "float32") IN
         IF r2.err # NoError THEN r2
         ELSE Reshape(r2.out, FixedShape)

(***************************************************************************)
(* The closures returned by the decorators for the image containers.       *)
(***************************************************************************)
\* the value of one float sample cast to uint8.  v is the product in
\* thousandths.  A product in [0, 256) is truncated; for any other the C
\* cast is undefined and the build decides: wrap modulo 256 or saturate.
CastModes == {"wrap", "saturate"}

\* a cast that rounds to the nearest integer instead of truncating
AsUint8Mutant(v, mode) ==
    LET q == (v + 500) \div 1000 IN
    IF q \in 0..255 THEN q
    ELSE IF mode = "wrap" THEN q % 256
    ELSE IF q < 0 THEN 0 ELSE 255

AsUint8(v, mode) ==
    LET q == IF v >= 0 THEN v \div 1000 ELSE -((-v) \div 1000) IN
    IF q \in 0..255 THEN q
    ELSE IF mode = "wrap" THEN q % 256
    ELSE IF q < 0 THEN 0 ELSE 255

\* (img * 255).astype(np.uint8)
Quantize(img, mode) ==
    Arr("uint8", img.shape,
        [i \in 1..Len(img.samples) |-> AsUint8(img.samples[i] * 255, mode)])

ErrKeyExt == "KeyError: 'ext'"
ErrKeyParams == "KeyError: 'params'"
ErrCvParams == "cv2.error: Can't parse 'params'"
ErrCvEmpty == "cv2.error: imdecode: empty buffer"

ContainerFormat(ext) ==
    CASE ext.s = ".jpg" -> "jpg"
      [] ext.s = ".png" -> "png"
      [] OTHER          -> "none"

\* the numbers of a parameter tuple
ParamNumbers(params) == [i \in 1..Len(params.items) |-> params.items[i].n]

\* cv2.imencode(ext, img, params) followed by np.array(...).tobytes():
\* params must be a sequence of integers
ImEncode(ext, img, params) ==
    IF \E i \in 1..Len(params.items) : ~IsInstance(params.items[i], "int")
    THEN Ret(ErrCvParams, NoBytes)
    ELSE Ret(NoError, Bytes(ContainerFormat(ext), ParamNumbers(params),
                            Size(img), "uint8", img.shape, img.samples))

\* compress(img, settings) of _decorate_cv_compress
CvCompress(func, img, settings, mode) ==
    LET q == Quantize(img, mode) IN
    IF ~Has(settings, "ext") THEN Ret(ErrKeyExt, NoBytes)
    ELSE IF ~Has(settings, "params") THEN Ret(ErrKeyParams, NoBytes)
    ELSE ImEncode(settings["ext"], q, settings["params"])

\* cv2.imdecode(buf, cv2.IMREAD_UNCHANGED): the image of a container, None
\* for bytes that are no image, an error for an empty buffer
ImDecode(buf) ==
    IF buf.nbytes = 0 THEN Ret(ErrCvEmpty, NoneArr)
    ELSE IF buf.fmt \in {"jpg", "png"}
    THEN Ret(NoError, Arr("uint8", buf.shape, buf.samples))
    ELSE Ret(NoError, NoneArr)

\* decompress(img) of _decorate_cv_decompress
CvDecompress(func, img) == ImDecode(img)

\* self._comp_met(img, self._settings)
CallComp(fn, img, settings, mode) ==
    IF fn.deco = "builtin_compress"
    THEN BuiltinCompress(fn.func, img, settings)
    ELSE CvCompress(fn.func, img, settings, mode)

\* self._decomp_met(img)
CallDecomp(fn, img) ==
    IF fn.deco = "builtin_decompress"
    THEN BuiltinDecompress(fn.func, img)
    ELSE CvDecompress(fn.func, img)

(***************************************************************************)
(* Inputs of the model.                                                    *)
(***************************************************************************)
NoneArg == "<None>"
KnownAlgos == {"bz2", "gzip", "lzma", "zlib", "jpeg", "jpg", "png"}
AlgoNames == KnownAlgos \cup {"webp", "LZMA"}

DictOf(k, v) == DictSet(EmptyDict, k, v)
LevelDict(n) == DictOf("level", PyInt(n))

\* values a caller may give for level: in range everywhere, out of range
\* for bz2, a float, or none
InputLevels == {PyInt(5), PyInt(0), PyFloat(25), Absent}
\* values a caller may give for a jpeg option: for each option one of the
\* kind the code asks for and others
InputExtras(k) ==
    CASE k = "progressive"  -> {PyBool(TRUE), PyInt(1)}
      [] k = "optimize"     -> {PyBool(FALSE), PyInt(0), PyStr("x")}
      [] k = "rst_interval" -> {PyInt(2), PyBool(TRUE), PyStr("x")}
      [] k = "luma_quality" -> {PyInt(50), PyFloat(25)}
      [] OTHER              -> {PyInt(50), PyBool(FALSE)}

\* level 5 with every jpeg option of the kind the code asks for
AllExtras ==
    [k \in Keys |->
        CASE k = "level"                       -> PyInt(5)
          [] k \in {"progressive", "optimize"} -> PyBool(FALSE)
          [] k \in JpegKeys                    -> PyInt(2)
          [] OTHER                             -> Absent]

\* the mappings callers build: a level alone, level 5 with one jpeg
\* option, level 5 with all of them
InputSettings ==
    {DictOf("level", v) : v \in InputLevels \ {PyInt(0)}}
      \cup UNION {{DictSet(LevelDict(5), k, v) : v \in InputExtras(k)} : k \in JpegKeys}
      \cup {AllExtras}

\* the mappings of the runs that also compress and decompress
RunSettings ==
    {DictOf("level", v) : v \in InputLevels}
      \cup {DictSet(LevelDict(5), "progressive", PyBool(TRUE))}

\* where the settings argument of a call comes from: a mapping the caller
\* has just built, the mapping object the facade already holds, or None
Fresh(d) == [kind |-> "fresh", d |-> d]
Same == [kind |-> "same", d |-> EmptyDict]
Omitted == [kind |-> "none", d |-> EmptyDict]

FrameIds == {"0001", "0002", "0003"}
ImgA == Arr("float32", FixedShape, <<0, 500>>)
ImgB == Arr("float32", FixedShape, <<1000, 250>>)

\* utils.read_openexr_image on image_dir/Comp_<id>.exr: frames 0001 and
\* 0002 have been rendered, frame 0003 has not
Rendered(id) ==
    CASE id = "0001" -> ImgA
      [] id = "0002" -> ImgB
      [] OTHER       -> NoneArr
ErrReadImage == "OSError: cannot read image"

\* images a caller may hand to compress: the rendered frames, an image
\* with a sample above 1, and arrays of another dtype or shape
InputImages ==
    {ImgA, ImgB,
     Arr("float32", FixedShape, <<1500, 500>>),
     Arr("float64", FixedShape, <<0, 500>>),
     Arr("float32", <<1024, 2464, 3>>, <<0, 500>>),
     Arr("float32", <<2048, 7392>>, <<0, 500>>)}

ExpectedBytes == Product(FixedShape) * ItemSize("float32")
InputLengths == {1, ExpectedBytes - 4, ExpectedBytes + 2, 2 * ExpectedBytes}

\* byte strings a caller may hand to decompress besides what compress
\* returned: streams of every format around buffers of other lengths,
\* an empty byte string, and bytes that are no stream and no image
InputArtifacts ==
    {Bytes(f, <<6>>, n, "uint8", <<>>, <<7>>) :
        f \in {"bz2", "gzip", "lzma", "zlib"}, n \in InputLengths}
      \cup {EmptyBytes, Bytes("raw", <<>>, 3, "uint8", <<>>, <<7>>)}

(***************************************************************************)
(* State.                                                                  *)
(***************************************************************************)
Objs == 1..NumObjs
NoRef == 0

\* the object a mapping built by the caller is stored in
NewObj == CHOOSE o \in Objs : o # settings_ref

\* the content of self._settings
Settings == IF settings_ref = NoRef THEN EmptyDict ELSE heap[settings_ref]

\* the configuration of the facade
Config == <<comp_met, decomp_met, Settings>>

Call(op, algo, src, arg, err) ==
    [op |-> op, algo |-> algo, src |-> src, arg |-> arg, err |-> err,
     img |-> NoneArr, art |-> NoBytes, out |-> NoBytes, res |-> NoneArr,
     func |-> "", kw |-> EmptyDict, ids |-> <<>>]

Init ==
    /\ constructed = FALSE
    /\ comp_met = UnsetFn
    /\ decomp_met = UnsetFn
    /\ settings_ref = NoRef
    /\ heap = [o \in Objs |-> EmptyDict]
    /\ img_ids = [set |-> FALSE, ids |-> <<>>]
    /\ imgs = <<>>
    /\ files = [id \in FrameIds |-> NoBytes]
    /\ last = Call("none", "", "", EmptyDict, NoError)
    /\ chosen = [ref |-> NoRef, comp |-> UnsetFn, decomp |-> UnsetFn,
                 d |-> EmptyDict]

(***************************************************************************)
(* select_algo(algo, settings) on the mapping object o whose content is d. *)
(* The branch mutates the object whether or not it raises; lines 192-194   *)
(* run only when it does not.  Mapping objects the facade does not hold    *)
(* after the call are dropped by the caller.                               *)
(***************************************************************************)
\* a selection that keeps a copy of the mapping and leaves the caller's alone
select_algoMutant(algo, o, d) ==
    LET r == SelectBranch(algo, d)
        c == CHOOSE x \in Objs : x # o
    IN  IF r.err = NoError
        THEN /\ comp_met' = r.comp
             /\ decomp_met' = r.decomp
             /\ settings_ref' = c
             /\ heap' = [x \in Objs |-> IF x = c THEN r.d
                                        ELSE IF x = o THEN d ELSE EmptyDict]
        ELSE UNCHANGED <<comp_met, decomp_met, settings_ref, heap>>

select_algo(algo, o, d) ==
    LET r == SelectBranch(algo, d) IN
    IF r.err = NoError
    THEN /\ comp_met' = r.comp
         /\ decomp_met' = r.decomp
         /\ settings_ref' = o
         /\ heap' = [x \in Objs |-> IF x = o THEN r.d ELSE EmptyDict]
    ELSE /\ UNCHANGED <<comp_met, decomp_met, settings_ref>>
         /\ heap' = [x \in Objs |-> IF x = settings_ref
                                    THEN (IF x = o THEN r.d ELSE heap[x])
                                    ELSE EmptyDict]

\* what the caller knows after select_algo(algo, settings) on its mapping
\* object o with content d: the object it passed (none when __init__ built
\* the default mapping itself) and the pair and the parameters the branch
\* resolved, when the call returned
Choose(algo, o, d) ==
    LET r == SelectBranch(algo, d) IN
    IF r.err = NoError
    THEN [ref |-> o, comp |-> r.comp, decomp |-> r.decomp, d |-> r.d]
    ELSE chosen

\* the values __init__ substitutes for an omitted algo and omitted settings
DefaultAlgo == "lzma"
\* a constructor whose default level is not the highest
DefaultSettingsMutant == LevelDict(6)
DefaultSettings == LevelDict(9)

\* Compressor(res_dir, algo, settings)
Construct(algo, src) ==
    /\ ~constructed
    /\ src.kind \in {"fresh", "none"}
    /\ LET a == IF algo = NoneArg THEN DefaultAlgo ELSE algo
           d == IF src.kind = "none" THEN DefaultSettings ELSE src.d
           r == SelectBranch(a, d)
       IN  /\ select_algo(a, NewObj, d)
           /\ chosen' = Choose(a, IF src.kind = "none" THEN NoRef ELSE NewObj, d)
           /\ constructed' = (r.err = NoError)
           /\ last' = Call("__init__", algo, src.kind, d, r.err)
    /\ imgs' = <<>>
    /\ UNCHANGED <<img_ids, files>>

\* a call of select_algo on a constructed facade
SelectAlgo(algo, src) ==
    /\ constructed
    /\ src.kind \in {"fresh", "same"}
    /\ LET o == IF src.kind = "same" THEN settings_ref ELSE NewObj
           d == IF src.kind = "same" THEN heap[settings_ref] ELSE src.d
           r == SelectBranch(algo, d)
       IN  /\ select_algo(algo, o, d)
           /\ chosen' = Choose(algo, o, d)
           /\ last' = Call("select_algo", algo, src.kind, d, r.err)
    /\ UNCHANGED <<constructed, img_ids, imgs, files>>

\* the caller assigns settings[key] = v on the mapping object it passed to
\* the last successful selection, which line 194 made self._settings
CallerSets(key, v) ==
    /\ constructed
    /\ chosen.ref # NoRef
    /\ heap' = [heap EXCEPT ![chosen.ref] = DictSet(@, key, v)]
    /\ last' = Call("caller", "", "", heap[chosen.ref], NoError)
    /\ UNCHANGED <<constructed, comp_met, decomp_met, settings_ref, img_ids,
                   imgs, files, chosen>>

(***************************************************************************)
(* load_images, compress, compress_series, decompress.                     *)
(***************************************************************************)
ErrNoImgIds == "AttributeError: 'Compressor' object has no attribute 'img_ids'"
ErrNoFirstId == "IndexError: list index out of range"
ErrNoFile == "FileNotFoundError"

\* methods that consume the mapping they read
ConfigFrameMutant ==
    /\ UNCHANGED <<comp_met, decomp_met, settings_ref>>
    /\ heap' = [o \in Objs |-> EmptyDict]

\* none of the four methods assigns _comp_met, _decomp_met or _settings, and
\* none writes to the mapping it reads
ConfigFrame == UNCHANGED <<comp_met, decomp_met, settings_ref, heap>>

\* the identifier lists a caller may pass
RECURSIVE SeqsUpTo(_, _)
SeqsUpTo(S, n) ==
    IF n = 0 THEN {<<>>}
    ELSE LET shorter == SeqsUpTo(S, n - 1) IN
         shorter \cup {Append(q, x) : q \in shorter, x \in S}
IdLists == SeqsUpTo(FrameIds, MaxIds)

\* get_frame_ids: the identifiers of the Comp_*.exr files of image_dir, in
\* the order the directory listing yields them
get_frame_ids == {<<"0001", "0002">>, <<"0002", "0001">>}

\* a loop that puts each image read in front of the list
RECURSIVE ReadFromMutant(_, _, _)
ReadFromMutant(ids, i, acc) ==
    IF i > Len(ids) THEN [err |-> NoError, imgs |-> acc]
    ELSE IF Rendered(ids[i]) = NoneArr
    THEN [err |-> ErrReadImage, imgs |-> acc]
    ELSE ReadFromMutant(ids, i + 1, <<Rendered(ids[i])>> \o acc)

\* the for loop of load_images from position i on: the images appended
\* and the exception that ends the loop
RECURSIVE ReadFrom(_, _, _)
ReadFrom(ids, i, acc) ==
    IF i > Len(ids) THEN [err |-> NoError, imgs |-> acc]
    ELSE IF Rendered(ids[i]) = NoneArr
    THEN [err |-> ErrReadImage, imgs |-> acc]
    ELSE ReadFrom(ids, i + 1, Append(acc, Rendered(ids[i])))

\* a load that extends self.img_ids instead of replacing it
load_imagesMutant(ids) ==
    /\ constructed
    /\ Len(imgs) + Len(ids) <= MaxImgs
    /\ LET r == ReadFrom(ids, 1, imgs) IN
       /\ img_ids' = [set |-> TRUE, ids |-> img_ids.ids \o ids]
       /\ imgs' = r.imgs
       /\ last' = [Call("load_images", "", "", EmptyDict, r.err) EXCEPT
                     !.ids = ids]
    /\ ConfigFrame
    /\ UNCHANGED <<constructed, files, chosen>>

load_images(ids) ==
    /\ constructed
    /\ Len(imgs) + Len(ids) <= MaxImgs
    /\ LET r == ReadFrom(ids, 1, imgs) IN
       /\ img_ids' = [set |-> TRUE, ids |-> ids]
       /\ imgs' = r.imgs
       /\ last' = [Call("load_images", "", "", EmptyDict, r.err) EXCEPT
                     !.ids = ids]
    /\ ConfigFrame
    /\ UNCHANGED <<constructed, files, chosen>>

\* a name that falls back to a default when there is no first identifier
FirstIdMutant ==
    IF ~img_ids.set \/ img_ids.ids = <<>> THEN Ret(NoError, "0001")
    ELSE Ret(NoError, img_ids.ids[1])

\* str(self.image_dir / self.img_ids[0]): the name, or the exception
FirstId ==
    IF ~img_ids.set THEN Ret(ErrNoImgIds, "")
    ELSE IF img_ids.ids = <<>> THEN Ret(ErrNoFirstId, "")
    ELSE Ret(NoError, img_ids.ids[1])

\* a compress that writes the file named by the last identifier
CompressOnLastMutant(img, fs, mode) ==
    LET r == CallComp(comp_met, img, Settings, mode) IN
    IF r.err # NoError THEN [err |-> r.err, out |-> NoBytes, fs |-> fs]
    ELSE IF FirstId.err # NoError
    THEN [err |-> FirstId.err, out |-> NoBytes, fs |-> fs]
    ELSE [err |-> NoError, out |-> r.out,
          fs |-> [fs EXCEPT ![img_ids.ids[Len(img_ids.ids)]] = r.out]]

\* a compress that opens the file for writing before it encodes
CompressOnOpenFirstMutant(img, fs, mode) ==
    LET r == CallComp(comp_met, img, Settings, mode) IN
    IF FirstId.err # NoError
    THEN [err |-> FirstId.err, out |-> NoBytes, fs |-> fs]
    ELSE IF r.err # NoError
    THEN [err |-> r.err, out |-> NoBytes,
          fs |-> [fs EXCEPT ![FirstId.out] = EmptyBytes]]
    ELSE [err |-> NoError, out |-> r.out,
          fs |-> [fs EXCEPT ![FirstId.out] = r.out]]

\* compress(img) against a file store fs: the exception, the artifact
\* returned and the file store afterwards
CompressOn(img, fs, mode) ==
    LET r == CallComp(comp_met, img, Settings, mode) IN
    IF r.err # NoError THEN [err |-> r.err, out |-> NoBytes, fs |-> fs]
    ELSE IF FirstId.err # NoError
    THEN [err |-> FirstId.err, out |-> NoBytes, fs |-> fs]
    ELSE [err |-> NoError, out |-> r.out,
          fs |-> [fs EXCEPT ![FirstId.out] = r.out]]

compress(img, mode) ==
    /\ constructed
    /\ LET r == CompressOn(img, files, mode) IN
       /\ files' = r.fs
       /\ last' = [Call("compress", "", "", EmptyDict, r.err) EXCEPT
                     !.img = img, !.out = r.out,
                     !.func = comp_met.func, !.kw = Settings]
    /\ ConfigFrame
    /\ UNCHANGED <<constructed, img_ids, imgs, chosen>>

\* the for loop of compress_series from position i on
RECURSIVE SeriesFrom(_, _, _)
SeriesFrom(i, fs, mode) ==
    IF i > Len(imgs) THEN [err |-> NoError, fs |-> fs]
    ELSE LET r == CompressOn(imgs[i], fs, mode) IN
         IF r.err # NoError THEN [err |-> r.err, fs |-> r.fs]
         ELSE SeriesFrom(i + 1, r.fs, mode)

compress_series(mode) ==
    /\ constructed
    /\ LET r == SeriesFrom(1, files, mode) IN
       /\ files' = r.fs
       /\ last' = [Call("compress_series", "", "", EmptyDict, r.err) EXCEPT
                     !.func = IF imgs = <<>> THEN "" ELSE comp_met.func,
                     !.kw = IF imgs = <<>> THEN EmptyDict ELSE Settings]
    /\ ConfigFrame
    /\ UNCHANGED <<constructed, img_ids, imgs, chosen>>

\* the file read by decompress(None): the exception or the bytes
ReadArtifact ==
    IF FirstId.err # NoError THEN Ret(FirstId.err, NoBytes)
    ELSE IF files[FirstId.out] = NoBytes THEN Ret(ErrNoFile, NoBytes)
    ELSE Ret(NoError, files[FirstId.out])

\* decompress(img): src says whether img is None or a byte string
decompress(src, art) ==
    /\ constructed
    /\ LET data == IF src = "none" THEN ReadArtifact ELSE Ret(NoError, art)
           r == IF data.err # NoError THEN Ret(data.err, NoneArr)
                ELSE CallDecomp(decomp_met, data.out)
       IN  last' = [Call("decompress", "", src, EmptyDict, r.err) EXCEPT
                      !.art = data.out, !.res = r.out,
                      !.img = IF src = "bytes" /\ art = last.out
                              THEN last.img ELSE NoneArr,
                      !.func = IF data.err = NoError THEN decomp_met.func
                               ELSE ""]
    /\ ConfigFrame
    /\ UNCHANGED <<constructed, img_ids, imgs, files, chosen>>

(***************************************************************************)
(* Specifications.  Spec explores construction and selection over every    *)
(* input mapping; SpecRun follows a facade from its construction, over    *)
(* the mappings of RunSettings, through the calls that load, compress and  *)
(* decompress.                                                             *)
(***************************************************************************)
ConstructAny ==
    \E algo \in AlgoNames \cup {NoneArg} :
        \E src \in {Omitted} \cup {Fresh(d) : d \in InputSettings} :
            Construct(algo, src)

SelectAny ==
    \E algo \in AlgoNames :
        \E src \in {Same} \cup {Fresh(d) : d \in InputSettings} :
            SelectAlgo(algo, src)

Next == ConstructAny \/ SelectAny

Spec == Init /\ [][Next]_vars

ConstructRun ==
    \E algo \in KnownAlgos \cup {NoneArg} :
        \E src \in {Omitted} \cup {Fresh(d) : d \in RunSettings} :
            Construct(algo, src)

LoadRun == \E ids \in {<<>>, <<"0001">>} : load_images(ids)

CompressRun == \E img \in InputImages, mode \in CastModes : compress(img, mode)

SeriesRun == \E mode \in CastModes : compress_series(mode)

DecompressRun ==
    \/ decompress("none", NoBytes)
    \/ \E art \in (InputArtifacts \cup {last.out}) \ {NoBytes} :
           decompress("bytes", art)

NextRun ==
    \/ ConstructRun
    \/ LoadRun
    \/ CompressRun
    \/ SeriesRun
    \/ DecompressRun

SpecRun == Init /\ [][NextRun]_vars

(***************************************************************************)
(* SpecIO follows a facade built with the default settings through loads   *)
(* of every identifier list, compressions and decompressions.  SpecAlias   *)
(* follows a facade through selections on new mappings and on the mapping  *)
(* it holds, assignments of the caller to that mapping, and compressions.  *)
(***************************************************************************)
ConstructIO == \E algo \in {NoneArg, "png"} : Construct(algo, Omitted)

\* load_images(img_ids) and load_images(): the second takes the list from
\* get_frame_ids
LoadIO ==
    \/ \E ids \in IdLists : load_images(ids)
    \/ \E ids \in get_frame_ids : load_images(ids)

CompressIO == \E img \in {ImgA, ImgB}, mode \in CastModes : compress(img, mode)

DecompressIO ==
    \/ decompress("none", NoBytes)
    \/ last.out # NoBytes /\ decompress("bytes", last.out)

NextIO ==
    \/ ConstructIO
    \/ LoadIO
    \/ CompressIO
    \/ SeriesRun
    \/ DecompressIO

SpecIO == Init /\ [][NextIO]_vars

AliasAlgos == {"lzma", "zlib", "jpeg", "png"}

SelectAlias ==
    \E algo \in AliasAlgos :
        \E src \in {Same, Fresh(LevelDict(5))} : SelectAlgo(algo, src)

CallerAlias == CallerSets("level", PyInt(1))

CompressAlias == \E mode \in CastModes : compress(ImgA, mode)

NextAlias ==
    \/ ConstructIO
    \/ SelectAlias
    \/ CallerAlias
    \/ LoadRun
    \/ CompressAlias
    \/ DecompressIO

SpecAlias == Init /\ [][NextAlias]_vars

(***************************************************************************)
(* The error taxonomy of the design, in terms of what the code raises.     *)
(***************************************************************************)
IsUnsupportedAlgorithm(e) == e = ErrUnknownAlgo
IsInvalidSetting(e) ==
    e \in {ErrProgressive, ErrOptimize, ErrRstInterval, ErrLumaQuality,
           ErrChromaQuality}
IsReconstructionError(e) == e \in {ErrBufferSize, ErrReshape}

\* the last call ran select_algo: directly, or from the constructor
Selected == last.op \in {"select_algo", "__init__"}
\* the algorithm that call selected, lower-cased
SelectedAlgo ==
    IF last.algo = NoneArg THEN DefaultAlgo ELSE Lower(last.algo)

(***************************************************************************)
(* C1.  Every algorithm name that is not, after lower-casing, one of bz2,  *)
(* gzip, lzma, zlib, jpeg, jpg, png makes select_algo fail with an         *)
(* UnsupportedAlgorithm error.                                             *)
(***************************************************************************)
C1_UnknownAlgoRejected ==
    (Selected /\ SelectedAlgo \notin KnownAlgos)
        => IsUnsupportedAlgorithm(last.err)

(***************************************************************************)
(* C3.  A failed select_algo call on a configured facade leaves the        *)
(* encode function, the decode function and the content of the resolved    *)
(* settings as they were before the call.                                  *)
(***************************************************************************)
C3_FailedSelectKeepsConfig ==
    [][(last'.op = "select_algo" /\ last'.err # NoError)
          => Config' = Config]_vars

(***************************************************************************)
(* C4.  Selecting jpeg or jpg with progressive or optimize set to a        *)
(* non-boolean, or with rst_interval, luma_quality or chroma_quality set   *)
(* to a non-integer (a string, a float, a boolean), fails with an          *)
(* InvalidSetting error.                                                   *)
(***************************************************************************)
WrongKind(d) ==
    \/ \E k \in {"progressive", "optimize"} : Has(d, k) /\ d[k].t # "bool"
    \/ \E k \in {"rst_interval", "luma_quality", "chroma_quality"} :
           Has(d, k) /\ d[k].t # "int"

C4_JpegWrongKindRejected ==
    (Selected /\ SelectedAlgo \in {"jpeg", "jpg"} /\ Has(last.arg, "level")
       /\ WrongKind(last.arg))
        => IsInvalidSetting(last.err)

(***************************************************************************)
(* C7.  Every constructed Compressor is configured: it has an encode       *)
(* function, a decode function and resolved settings; with algo omitted    *)
(* the pair is the lzma pair, and with settings omitted the level is 9, so *)
(* Compressor(res_dir) holds the lzma pair with preset 9.                  *)
(***************************************************************************)
C7_ConstructedIsConfigured ==
    /\ constructed =>
          /\ comp_met # UnsetFn
          /\ decomp_met # UnsetFn
          /\ settings_ref # NoRef
    /\ (last.op = "__init__" /\ last.err = NoError /\ last.algo = NoneArg) =>
          /\ constructed
          /\ comp_met = _decorate_builtin_compress("lzma.compress")
          /\ decomp_met = _decorate_builtin_decompress("lzma.decompress")
          /\ last.src = "none" => Settings = DictOf("preset", PyInt(9))
    /\ (last.op = "__init__" /\ last.err = NoError /\ last.src = "none"
          /\ last.algo \in {"bz2", "gzip"}) =>
          Settings = DictOf("compresslevel", PyInt(9))

C7_Witness ==
    /\ constructed
    /\ last.op = "__init__"
    /\ last.algo = NoneArg
    /\ last.src = "none"
    /\ Settings = DictOf("preset", PyInt(9))

(***************************************************************************)
(* C10.  After a successful select_algo with settings {level: n} the       *)
(* resolved settings are exactly {compresslevel: n} for bz2 and gzip,      *)
(* {preset: n} for lzma, and {ext: ".png", params: (PNG compression flag,  *)
(* n)} for png: level is gone and no other key has been added.             *)
(***************************************************************************)
OnlyLevel(d) == Has(d, "level") /\ d = DictOf("level", d["level"])

C10_LevelTranslation ==
    (Selected /\ last.err = NoError /\ OnlyLevel(last.arg)) =>
        LET n == last.arg["level"] IN
        /\ SelectedAlgo \in {"bz2", "gzip"} =>
              Settings = DictOf("compresslevel", n)
        /\ SelectedAlgo = "lzma" => Settings = DictOf("preset", n)
        /\ SelectedAlgo = "png" =>
              Settings = DictSet(DictOf("ext", PyStr(".png")), "params",
                            PyTuple(<<PyInt(IMWRITE_PNG_COMPRESSION), n>>))

C10_Witness ==
    /\ last.op = "select_algo"
    /\ last.algo = "png"
    /\ last.err = NoError
    /\ last.arg = LevelDict(5)
    /\ KeysOf(Settings) = {"ext", "params"}

(***************************************************************************)
(* C2.  Round trip of the lossless family: on a facade configured with     *)
(* bz2, gzip, lzma or zlib, decompress of the artifact that compress       *)
(* returned for a float32 image of the fixed shape returns an array of the *)
(* fixed shape with the samples of that image.                             *)
(***************************************************************************)
\* the last call decompressed the artifact compress had returned for
\* last.img
RoundTrip ==
    /\ last.op = "decompress"
    /\ last.src = "bytes"
    /\ last.img # NoneArr

FixedImage(a) == a.dtype = "float32" /\ a.shape = FixedShape

C2_LosslessRoundTrip ==
    (RoundTrip /\ comp_met.deco = "builtin_compress" /\ FixedImage(last.img))
        => /\ last.err = NoError
           /\ last.res.shape = FixedShape
           /\ last.res.dtype = "float32"
           /\ last.res.samples = last.img.samples

C2_Witness ==
    /\ RoundTrip
    /\ comp_met.func = "bz2.compress"
    /\ last.img = ImgB
    /\ last.res = ImgB

(***************************************************************************)
(* C5.  Decoding with a byte-stream codec an artifact whose decompressed   *)
(* length is not 2048*2464*3*4 bytes fails with a ReconstructionError, and *)
(* decompress never returns an array of another shape.                     *)
(***************************************************************************)
\* the last call ran a byte-stream decoder
StreamDecoded ==
    /\ last.op = "decompress"
    /\ last.func # ""
    /\ decomp_met.deco = "builtin_decompress"

\* the length of the buffer inside the artifact of the last call, -1 when
\* the codec rejects the artifact
DecodedLength ==
    LET r == StreamDecompress(decomp_met.func, last.art) IN
    IF r.err = NoError THEN r.out.nbytes ELSE -1

C5_WrongLengthRejected ==
    StreamDecoded =>
        /\ (DecodedLength >= 0 /\ DecodedLength # 2048 * 2464 * 3 * 4)
              => (IsReconstructionError(last.err) /\ last.res = NoneArr)
        /\ last.err = NoError => last.res.shape = <<2048, 2464, 3>>

C5_Witness ==
    /\ StreamDecoded
    /\ DecodedLength = 2 * (2048 * 2464 * 3 * 4)
    /\ last.err = ErrReshape

(***************************************************************************)
(* C6.  Validation is eager: once select_algo has returned without error,  *)
(* no compress call on a well-formed image fails for a reason that depends *)
(* only on the settings: a level that is no integer or is out of the       *)
(* codec's range, or a key the codec does not accept.                      *)
(***************************************************************************)
SettingsErrors ==
    {ErrUnexpectedKeyword, ErrNotAnInteger, ErrCvParams, ErrKeyExt,
     ErrKeyParams}
      \cup {LevelError(f) : f \in {"bz2.compress", "gzip.compress",
                                   "lzma.compress", "zlib.compress"}}

C6_EagerValidation ==
    (last.op = "compress" /\ FixedImage(last.img))
        => last.err \notin SettingsErrors

(***************************************************************************)
(* C8.  load_images, compress, compress_series and decompress, whether     *)
(* they succeed or fail, leave the encode function, the decode function    *)
(* and the content of the resolved settings unchanged.                     *)
(***************************************************************************)
C8_OnlySelectMutatesConfig ==
    [][last'.op \in {"load_images", "compress", "compress_series",
                     "decompress"} => Config' = Config]_vars

C8_Witness ==
    /\ last.op = "compress"
    /\ last.err = NoError
    /\ last.out # NoBytes
    /\ KeysOf(Settings) # {}

(***************************************************************************)
(* C9.  For zlib the generic level is unused: after                        *)
(* select_algo("zlib", {level: n}) compress calls the zlib compressor      *)
(* without a level parameter, so zlib's default level applies.             *)
(***************************************************************************)
C9_ZlibLevelUnused ==
    (last.op = "compress" /\ last.func = "zlib.compress")
        => /\ ~Has(last.kw, "level")
           /\ last.err = NoError => last.out.par = <<DefaultLevel(last.func)>>

(***************************************************************************)
(* C9, amended.  For zlib the generic level is neither renamed nor         *)
(* removed: selecting zlib leaves the mapping as it was given, and         *)
(* compress calls the zlib compressor with level = n, so the artifact is   *)
(* compressed at level n.                                                  *)
(***************************************************************************)
C9_ZlibLevelPassedOn ==
    /\ (Selected /\ SelectedAlgo = "zlib")
          => (last.err = NoError /\ Settings = last.arg)
    /\ (last.op = "compress" /\ last.func = "zlib.compress"
          /\ Has(Settings, "level"))
          => /\ last.kw["level"] = Settings["level"]
             /\ last.err = NoError => last.out.par = <<Settings["level"].n>>

C9_Witness ==
    /\ last.op = "compress"
    /\ last.func = "zlib.compress"
    /\ last.kw = LevelDict(5)
    /\ last.out.par = <<5>>

(***************************************************************************)
(* C11.  For jpeg and jpg the resolved parameter list is (quality flag,    *)
(* level * 10) followed, in the order progressive, optimize, rst_interval, *)
(* luma_quality, chroma_quality, by one (flag, value) pair for each of     *)
(* these options the input settings have; an absent option contributes     *)
(* nothing and no option appears twice.                                    *)
(***************************************************************************)
\* the pair of one option: nothing when the mapping does not have it
OptionPair(d, key, flag) ==
    IF Has(d, key) THEN <<PyInt(flag), d[key]>> ELSE <<>>

ExpectedJpegParams(d) ==
    <<PyInt(1), [d["level"] EXCEPT !.n = @ * 10]>>
      \o OptionPair(d, "progressive", 2)
      \o OptionPair(d, "optimize", 3)
      \o OptionPair(d, "rst_interval", 4)
      \o OptionPair(d, "luma_quality", 5)
      \o OptionPair(d, "chroma_quality", 6)

\* the flags of a parameter list: the elements at the odd positions
FlagsOf(items) == [i \in 1..(Len(items) \div 2) |-> items[2 * i - 1].n]

C11_JpegParams ==
    (Selected /\ SelectedAlgo \in {"jpeg", "jpg"} /\ last.err = NoError) =>
        LET items == Settings["params"].items IN
        /\ Settings["params"].t = "tuple"
        /\ items = ExpectedJpegParams(last.arg)
        /\ \A i, j \in 1..Len(FlagsOf(items)) :
               FlagsOf(items)[i] = FlagsOf(items)[j] => i = j
        /\ Settings["ext"] = PyStr(".jpg")

C11_Witness ==
    /\ last.op = "select_algo"
    /\ last.algo = "jpg"
    /\ last.err = NoError
    /\ last.arg = AllExtras
    /\ Len(Settings["params"].items) = 12

(***************************************************************************)
(* C12.  PNG is exact on the 8-bit domain: with png selected, for every    *)
(* image whose samples lie in [0, 1], decompress(compress(image)) equals   *)
(* round(image * 255) sample for sample.                                   *)
(***************************************************************************)
PngSelected ==
    /\ comp_met.deco = "cv_compress"
    /\ decomp_met.deco = "cv_decompress"
    /\ Settings["ext"] = PyStr(".png")

\* every sample, in thousandths, lies in [0, 1]
InUnitRange(a) == \A i \in 1..Len(a.samples) : a.samples[i] \in 0..1000

\* round(x * 255) and the integer part of x * 255, for x in thousandths
Round255(x) == (2 * x * 255 + 1000) \div 2000
Trunc255(x) == (x * 255) \div 1000

C12_PngRounds ==
    (RoundTrip /\ PngSelected /\ InUnitRange(last.img)) =>
        /\ last.err = NoError
        /\ last.res.samples =
              [i \in 1..Len(last.img.samples) |-> Round255(last.img.samples[i])]

(***************************************************************************)
(* C12, amended.  With png selected, for every image whose samples lie in  *)
(* [0, 1], decompress(compress(image)) is an 8-bit array of the shape of   *)
(* the image that equals the integer part of image * 255 sample for        *)
(* sample: the fraction is cut off, not rounded.                           *)
(***************************************************************************)
C12_PngTruncates ==
    (RoundTrip /\ PngSelected /\ InUnitRange(last.img)) =>
        /\ last.err = NoError
        /\ last.res.dtype = "uint8"
        /\ last.res.shape = last.img.shape
        /\ last.res.samples =
              [i \in 1..Len(last.img.samples) |-> Trunc255(last.img.samples[i])]

C12_Witness ==
    /\ RoundTrip
    /\ PngSelected
    /\ last.img = ImgA
    /\ last.res.samples = <<0, 127>>

(***************************************************************************)
(* C13.  Decode either fully succeeds or fails: for every byte sequence    *)
(* that is not a valid artifact of the configured algorithm decompress     *)
(* raises an error and returns no value, for the byte-stream family and    *)
(* for the image-container family.                                         *)
(***************************************************************************)
\* the bytes are a stream of the configured codec, or an image container
ValidArtifact(fn, data) ==
    IF fn.deco = "builtin_decompress"
    THEN data.fmt = StreamFormat(fn.func)
    ELSE data.fmt \in {"jpg", "png"}

C13_DecodeSucceedsOrFails ==
    (last.op = "decompress" /\ last.func # ""
       /\ ~ValidArtifact(decomp_met, last.art))
        => last.err # NoError

(***************************************************************************)
(* C14.  One constant destination: a successful compress returns the       *)
(* artifact and writes it to the single file named by the first loaded     *)
(* frame identifier; a successful compress_series compresses the loaded    *)
(* images in list order and returns nothing, so the file then holds the    *)
(* artifact of the last image; and decompress with no artifact returns     *)
(* what decompress of the artifact just written returns.                   *)
(***************************************************************************)
\* the artifact compress produces for img under the current configuration
ArtifactsOf(img) ==
    {CallComp(comp_met, img, Settings, mode).out : mode \in CastModes}

C14_OneDestination ==
    [][/\ (last'.op = "compress" /\ last'.err = NoError) =>
             /\ img_ids.ids # <<>>
             /\ last'.out \in ArtifactsOf(last'.img)
             /\ files' = [files EXCEPT ![img_ids.ids[1]] = last'.out]
       /\ (last'.op = "compress_series" /\ last'.err = NoError
              /\ imgs # <<>>) =>
             /\ img_ids.ids # <<>>
             /\ last'.out = NoBytes
             /\ \E a \in ArtifactsOf(imgs[Len(imgs)]) :
                    files' = [files EXCEPT ![img_ids.ids[1]] = a]
       /\ (last.op = "compress" /\ last.err = NoError
              /\ last'.op = "decompress" /\ last'.src = "none") =>
             /\ last'.art = last.out
             /\ last'.err = CallDecomp(decomp_met, last.out).err
             /\ last'.res = CallDecomp(decomp_met, last.out).out
      ]_vars

C14_Witness ==
    /\ last.op = "compress_series"
    /\ last.err = NoError
    /\ img_ids.ids = <<"0002", "0001">>
    /\ imgs = <<ImgB, ImgA>>
    /\ files["0002"] \in ArtifactsOf(ImgA)
    /\ files["0001"] = NoBytes

(***************************************************************************)
(* C15.  A failed compress writes nothing: when compress raises, because   *)
(* the encoder rejects the image or the parameters or because there is no  *)
(* first identifier, every artifact file is as it was before the call and  *)
(* no artifact is returned; decompress never writes a file.                *)
(***************************************************************************)
C15_FailedCompressWritesNothing ==
    [][/\ (last'.op = "compress" /\ last'.err # NoError) =>
             /\ files' = files
             /\ last'.out = NoBytes
       /\ last'.op = "decompress" => files' = files
      ]_vars

\* the encoder has rejected the call while the artifact file exists
C15_Witness ==
    /\ last.op = "compress"
    /\ last.err \notin {NoError, ErrNoImgIds, ErrNoFirstId}
    /\ img_ids.ids # <<>>
    /\ files[img_ids.ids[1]] \notin {NoBytes, EmptyBytes}

(***************************************************************************)
(* C16.  Re-selection keeps no history: after any sequence of select_algo  *)
(* calls whose last successful call chose algorithm B with settings S,     *)
(* every compress uses B's encoder with the parameters resolved from S,    *)
(* and every decompress that decodes uses B's decoder.                     *)
(***************************************************************************)
C16_UsesLastSelection ==
    /\ last.op = "compress" =>
          /\ last.func = chosen.comp.func
          /\ last.kw = chosen.d
    /\ (last.op = "decompress" /\ last.func # "") =>
          last.func = chosen.decomp.func

(***************************************************************************)
(* C17.  load_images is append-only: each call appends the images of its   *)
(* identifiers to self.imgs in identifier order and never removes or       *)
(* reorders earlier entries; after a call that succeeds the list is the    *)
(* list before the call followed by the images of the identifiers; no      *)
(* other method changes the list.                                          *)
(***************************************************************************)
\* the images of an identifier list, in its order
ImagesOf(ids) == [i \in 1..Len(ids) |-> Rendered(ids[i])]

IsPrefix(a, b) == Len(a) <= Len(b) /\ SubSeq(b, 1, Len(a)) = a

C17_AppendOnly ==
    [][/\ last'.op = "load_images" =>
             /\ IsPrefix(imgs, imgs')
             /\ IsPrefix(imgs', imgs \o ImagesOf(last'.ids))
             /\ last'.err = NoError => imgs' = imgs \o ImagesOf(last'.ids)
       /\ last'.op \notin {"load_images", "__init__"} => imgs' = imgs
      ]_vars

\* a second load, of the list it was given the first time
C17_Witness ==
    /\ last.op = "load_images"
    /\ last.err = NoError
    /\ last.ids = <<"0002">>
    /\ imgs = <<ImgB, ImgB>>

(***************************************************************************)
(* C18.  select_algo mutates and retains the caller's mapping itself:      *)
(* after a successful selection of bz2, gzip, lzma or png the mapping the  *)
(* caller passed no longer contains level and self._settings is that same  *)
(* object; a later select_algo on the same object fails with a missing-key *)
(* error for every algorithm but zlib; and compress passes on whatever the *)
(* caller's mapping holds at the time of the call.                         *)
(***************************************************************************)
C18_MappingRetained ==
    /\ (Selected /\ last.err = NoError /\ last.src # "none") =>
          /\ settings_ref = chosen.ref
          /\ heap[chosen.ref] = chosen.d
          /\ SelectedAlgo \in {"bz2", "gzip", "lzma", "png"} =>
                ~Has(heap[chosen.ref], "level")
    /\ (last.op = "select_algo" /\ last.src = "same"
           /\ ~Has(last.arg, "level") /\ SelectedAlgo # "zlib") =>
          last.err = KeyErrorLevel
    /\ (last.op = "compress" /\ chosen.ref # NoRef) =>
          last.kw = heap[chosen.ref]

\* the caller has changed level after a zlib selection and compress used it
C18_Witness ==
    /\ last.op = "compress"
    /\ last.err = NoError
    /\ last.func = "zlib.compress"
    /\ chosen.ref # NoRef
    /\ chosen.d["level"] = PyInt(5)
    /\ last.kw["level"] = PyInt(1)

(***************************************************************************)
(* C19.  Being configured is not enough to compress: on an instance on     *)
(* which load_images was never called, or whose most recent load_images    *)
(* call received an empty list, compress runs the encoder and then raises  *)
(* before any file is opened and without returning the artifact, and       *)
(* decompress(None) raises without decoding; decompress of an explicit     *)
(* artifact decodes it whatever the identifiers are.                       *)
(***************************************************************************)
NoFirstId == ~img_ids.set \/ img_ids.ids = <<>>

\* the exception of evaluating self.img_ids[0] without a first identifier
NoFirstIdError == IF ~img_ids.set THEN ErrNoImgIds ELSE ErrNoFirstId

C19_NeedsFirstId ==
    [][/\ (last'.op = "compress" /\ NoFirstId) =>
             /\ last'.func = comp_met.func
             /\ last'.err # NoError
             /\ last'.out = NoBytes
             /\ files' = files
             /\ \E mode \in CastModes :
                  LET r == CallComp(comp_met, last'.img, Settings, mode) IN
                  last'.err = IF r.err # NoError THEN r.err ELSE NoFirstIdError
       /\ (last'.op = "decompress" /\ last'.src = "none" /\ NoFirstId) =>
             /\ last'.err = NoFirstIdError
             /\ last'.func = ""
             /\ last'.res = NoneArr
       /\ (last'.op = "decompress" /\ last'.src = "bytes") =>
             /\ last'.func = decomp_met.func
             /\ last'.err = CallDecomp(decomp_met, last'.art).err
             /\ last'.res = CallDecomp(decomp_met, last'.art).out
      ]_vars

\* compress after the identifiers were replaced by an empty list
C19_Witness ==
    /\ last.op = "compress"
    /\ last.err = ErrNoFirstId
    /\ img_ids.set
    /\ img_ids.ids = <<>>
    /\ imgs # <<>>

(***************************************************************************)
(* C20.  load_images replaces the identifier list and extends the image    *)
(* list, so after two calls with different lists the identifier list is    *)
(* that of the second call, the two lists differ in length and the i-th    *)
(* image no longer corresponds to the i-th identifier.                     *)
(***************************************************************************)
C20_ListsDiffer ==
    [][(last.op = "load_images" /\ last'.op = "load_images"
          /\ last.ids # last'.ids) =>
             /\ img_ids'.ids = last'.ids
             /\ IsPrefix(imgs, imgs')
             /\ Len(imgs') # Len(img_ids'.ids)
             /\ imgs' # ImagesOf(img_ids'.ids)
      ]_vars

(***************************************************************************)
(* C20, amended.  load_images replaces the identifier list by the list of  *)
(* the call, also when a read fails part-way, in which case the images     *)
(* read before the failing identifier are kept; the image list grows by    *)
(* the images read.  After a call that succeeds on an instance that held   *)
(* images before it, the image list is longer than the identifier list and *)
(* the i-th image no longer corresponds to the i-th identifier; when no    *)
(* image was held before, the two lists correspond.  compress writes the   *)
(* file named by the first identifier of the most recent call.             *)
(***************************************************************************)
C20_ReplacedAndExtended ==
    [][/\ last'.op = "load_images" =>
             LET read == Len(imgs') - Len(imgs) IN
             /\ img_ids' = [set |-> TRUE, ids |-> last'.ids]
             /\ IsPrefix(imgs, imgs')
             /\ last'.err = NoError => read = Len(last'.ids)
             /\ last'.err # NoError =>
                   /\ read < Len(last'.ids)
                   /\ Rendered(last'.ids[read + 1]) = NoneArr
             /\ (last'.err = NoError /\ imgs # <<>>) =>
                   /\ Len(imgs') > Len(img_ids'.ids)
                   /\ imgs' # ImagesOf(img_ids'.ids)
             /\ (last'.err = NoError /\ imgs = <<>>) =>
                   imgs' = ImagesOf(img_ids'.ids)
       /\ (last.op = "load_images" /\ last.ids # <<>>
              /\ last'.op = "compress" /\ last'.err = NoError) =>
             files'[last.ids[1]] = last'.out
      ]_vars

\* a second load with another list: one identifier, two images
C20_Witness ==
    /\ last.op = "load_images"
    /\ last.err = NoError
    /\ last.ids = <<"0001">>
    /\ img_ids.ids = <<"0001">>
    /\ imgs = <<ImgB, ImgA>>

====
